---- MODULE Spec2Model ----
(***************************************************************************)
(* Model of jtw/json/json_to_word.py: DocumentGenerator turns a JSON       *)
(* record set and a template mapping into a sequence of document blocks    *)
(* (headings, paragraphs, tables) and saves it.                            *)
(*                                                                         *)
(* Text is modelled as a sequence of one-character strings, so that str(), *)
(* str.replace() and str.title() are computed and not assumed.  A Python   *)
(* dict is a sequence of <<key, value>> pairs in insertion order.          *)
(***************************************************************************)
EXTENDS Integers, Sequences, FiniteSets, TLC

(***************************************************************************)
(* Bounds of the model.                                                    *)
(***************************************************************************)
MaxRecords == 2     \* records per category
MaxTotal == 2       \* records per input, all categories together
MaxKeys == 3        \* category keys of an input
MaxDefectSize == 2  \* keys plus records of an input with a defect or variant
MaxCalls == 2       \* generate_document calls on one instance
MaxInstances == 2   \* DocumentGenerator instances built on the same input
MaxWork == 4        \* keys plus records, times the calls or the instances after the first

(***************************************************************************)
(* Text.                                                                   *)
(***************************************************************************)
Digits == <<"0", "1", "2", "3", "4", "5", "6", "7", "8", "9">>

Lowers == <<"a", "b", "c", "d", "e", "f", "g", "h", "i", "j", "k", "l", "m",
            "n", "o", "p", "q", "r", "s", "t", "u", "v", "w", "x", "y", "z">>

Uppers == <<"A", "B", "C", "D", "E", "F", "G", "H", "I", "J", "K", "L", "M",
            "N", "O", "P", "Q", "R", "S", "T", "U", "V", "W", "X", "Y", "Z">>

IndexIn(c, alphabet) ==
    IF \E k \in DOMAIN alphabet : alphabet[k] = c
    THEN CHOOSE k \in DOMAIN alphabet : alphabet[k] = c
    ELSE 0

IsCased(c) == IndexIn(c, Lowers) > 0 \/ IndexIn(c, Uppers) > 0

ToUpper(c) == IF IndexIn(c, Lowers) > 0 THEN Uppers[IndexIn(c, Lowers)] ELSE c

ToLower(c) == IF IndexIn(c, Uppers) > 0 THEN Lowers[IndexIn(c, Uppers)] ELSE c

\* str.replace(old, new) for one-character old and new
Replace(s, old, new) == [k \in DOMAIN s |-> IF s[k] = old THEN new ELSE s[k]]

\* str.title(): a cased character is upper-cased after an uncased one (or at
\* the start) and lower-cased after a cased one
TitleCase(s) ==
    [k \in DOMAIN s |->
        IF k > 1 /\ IsCased(s[k - 1]) THEN ToLower(s[k]) ELSE ToUpper(s[k])]

RECURSIVE NatToStr(_)
NatToStr(n) ==
    IF n < 10 THEN <<Digits[n + 1]>>
    ELSE NatToStr(n \div 10) \o <<Digits[(n % 10) + 1]>>

\* str() of an int
IntToStr(n) == IF n < 0 THEN <<"-">> \o NatToStr(0 - n) ELSE NatToStr(n)

(***************************************************************************)
(* Python values: None, bool, int, str.                                    *)
(***************************************************************************)
None == [t |-> "none", s |-> <<>>, i |-> 0]
PyStr(chars) == [t |-> "str", s |-> chars, i |-> 0]
PyInt(n) == [t |-> "int", s |-> <<>>, i |-> n]
PyBool(b) == [t |-> "bool", s |-> <<>>, i |-> IF b THEN 1 ELSE 0]

\* str(v)
Str(v) ==
    CASE v.t = "str" -> v.s
      [] v.t = "int" -> IntToStr(v.i)
      [] v.t = "bool" -> IF v.i = 1 THEN <<"T", "r", "u", "e">>
                         ELSE <<"F", "a", "l", "s", "e">>
      [] OTHER -> <<"N", "o", "n", "e">>

\* truth value of v, as `if v` takes it
Truthy(v) ==
    CASE v.t = "str" -> Len(v.s) > 0
      [] v.t = "none" -> FALSE
      [] OTHER -> v.i # 0

(***************************************************************************)
(* Dicts.                                                                  *)
(***************************************************************************)
HasKey(d, k) == \E n \in DOMAIN d : d[n][1] = k

\* d[k] for a key that is present
Lookup(d, k) == d[CHOOSE n \in DOMAIN d : d[n][1] = k][2]

\* d.get(k, default)
GetOr(d, k, default) == IF HasKey(d, k) THEN Lookup(d, k) ELSE default

Without(d, k) == SelectSeq(d, LAMBDA kv : kv[1] # k)

Reverse(s) == [k \in DOMAIN s |-> s[Len(s) + 1 - k]]

(***************************************************************************)
(* Inputs: the JSON record set and the template mapping.  The record       *)
(* fields are the ones the category processors read; the widths of the     *)
(* template's header rows are those of the rows the processors build.      *)
(***************************************************************************)
Categories == <<"TypeA", "TypeB", "TypeC", "TypeD", "TypeE">>

Letter(cat) ==
    CASE cat = "TypeA" -> "A" [] cat = "TypeB" -> "B" [] cat = "TypeC" -> "C"
      [] cat = "TypeD" -> "D" [] OTHER -> "E"

Tag(prefix, j) == PyStr(prefix \o NatToStr(j))

sAlice == <<"A", "l", "i", "c", "e">>
sBob == <<"B", "o", "b">>
sManufacturer == <<"m", "a", "n", "u", "f", "a", "c", "t", "u", "r", "e", "r">>

RecordA(j) ==
    << <<"id", Tag(<<"A">>, j)>>,
       <<"name", Tag(<<"n">>, j)>>,
       <<"description", PyStr(<<"d", "e", "v">>)>>,
       <<"parameters", << <<"status", PyStr(IF j % 2 = 1 THEN <<"u", "p">> ELSE <<>>)>>,
                          <<"priority", PyInt(j)>>,
                          <<"last_updated", Tag(<<"d", "a", "y">>, 10 + j)>> >> >> >>

RecordB(j) ==
    << <<"component_id", Tag(<<"B">>, j)>>,
       <<"installation_date", Tag(<<"d", "a", "y">>, j)>>,
       <<"specs", IF j % 2 = 1
                  THEN << <<sManufacturer, PyStr(<<"A", "c", "m", "e">>)>>,
                          <<(<<"v", "o", "l", "t">>), PyInt(12)>> >>
                  ELSE << <<(<<"r", "p", "m">>), PyInt(0 - 3)>>,
                          <<sManufacturer, PyStr(<<"Z", "e", "d">>)>> >> >> >>

RecordC(j) ==
    IF j = 1
    THEN << <<"transaction_id", PyStr(<<"T", "1">>)>>,
            <<"amount", PyInt(100)>>,
            <<"currency", PyStr(<<"U", "S", "D">>)>>,
            <<"parties", <<PyStr(sAlice), PyStr(sBob)>> >>,
            <<"approved", PyBool(TRUE)>> >>
    ELSE << <<"transaction_id", IF j = 2 THEN PyInt(42) ELSE Tag(<<"T">>, j)>>,
            <<"amount", PyInt(7 * j)>>,
            <<"currency", PyStr(<<"E", "U", "R">>)>>,
            <<"parties", IF j = 2 THEN <<>> ELSE <<PyStr(sBob)>> >>,
            <<"approved", PyBool(j > 2)>> >>

RecordD(j) ==
    << <<"test_id", Tag(<<"D">>, j)>>,
       <<"environment", PyStr(IF j % 2 = 1 THEN <<"p", "r", "e", "-", "p", "R", "o", "d">>
                              ELSE <<"q", "a", "_", "e", "u">>)>>,
       <<"metrics", IF j % 2 = 1
                    THEN << <<(<<"r", "e", "s", "p", "_", "m", "s">>), PyInt(5)>> >>
                    ELSE << <<(<<"c", "p", "u">>), PyInt(1)>>,
                            <<(<<"m", "e", "m", "_", "M", "B">>), PyStr(<<"l", "o">>)>> >> >> >>

RecordE(j) ==
    << <<"employee_id", Tag(<<"E">>, j)>>,
       <<"department", PyStr(<<"R", "D">>)>>,
       <<"role", PyStr(<<"d", "e", "v">>)>>,
       <<"projects", IF j % 2 = 1 THEN <<PyStr(<<"P", "1">>), PyStr(<<"P", "2">>)>>
                     ELSE <<>> >> >>

Record(cat, j) ==
    CASE cat = "TypeA" -> RecordA(j) [] cat = "TypeB" -> RecordB(j)
      [] cat = "TypeC" -> RecordC(j) [] cat = "TypeD" -> RecordD(j)
      [] OTHER -> RecordE(j)

\* the fields a processor reads, as paths into the record
FieldPaths(cat) ==
    CASE cat = "TypeA" -> {<<"id">>, <<"name">>, <<"description">>, <<"parameters">>,
                           <<"parameters", "status">>, <<"parameters", "priority">>,
                           <<"parameters", "last_updated">>}
      [] cat = "TypeB" -> {<<"component_id">>, <<"installation_date">>, <<"specs">>,
                           <<"specs", sManufacturer>>}
      [] cat = "TypeC" -> {<<"transaction_id">>, <<"amount">>, <<"currency">>,
                           <<"parties">>, <<"approved">>}
      [] cat = "TypeD" -> {<<"test_id">>, <<"environment">>, <<"metrics">>}
      [] OTHER -> {<<"employee_id">>, <<"department">>, <<"role">>, <<"projects">>}

\* the record without the field at path
DropField(rec, path) ==
    IF Len(path) = 1 THEN Without(rec, path[1])
    ELSE [n \in DOMAIN rec |->
            IF rec[n][1] = path[1]
            THEN <<rec[n][1], Without(rec[n][2], path[2])>>
            ELSE rec[n]]

TemplateName(cat) ==
    CASE cat = "TypeA" -> "type_a" [] cat = "TypeB" -> "type_b"
      [] cat = "TypeC" -> "type_c" [] cat = "TypeD" -> "type_d"
      [] OTHER -> "type_e"

HeadersKey(slot) ==
    CASE slot = 1 -> "table1_headers" [] slot = 2 -> "table2_headers"
      [] OTHER -> "table3_headers"

TitleKey(slot) ==
    CASE slot = 1 -> "table1_title" [] slot = 2 -> "table2_title"
      [] OTHER -> "table3_title"

TemplateKeys ==
    {"title"} \cup {HeadersKey(slot) : slot \in 1..3} \cup {TitleKey(slot) : slot \in 1..3}

\* number of cells of the rows that the processor of cat builds for a table
RowWidth(cat, slot) ==
    IF slot = 1 /\ cat \in {"TypeA", "TypeC", "TypeE"} THEN 3
    ELSE IF slot = 2 /\ cat = "TypeA" THEN 3
    ELSE 2

HeaderRow(width) == [k \in 1..width |-> <<"h">> \o NatToStr(k)]

NoDefect == [kind |-> "none", cat |-> "", path |-> <<>>, slot |-> 0]

Defect(kind, cat, path, slot) == [kind |-> kind, cat |-> cat, path |-> path, slot |-> slot]

TemplateEntry(cat, defect) ==
    LET mine == defect.cat = cat
        width(slot) == IF mine /\ defect.kind = "short" /\ defect.slot = slot
                       THEN RowWidth(cat, slot) - 1
                       ELSE RowWidth(cat, slot)
        ttl(slot) == IF defect.kind = "untitled" /\ slot # 2 THEN None
                     ELSE IF defect.kind = "untitled" THEN PyStr(<<>>)
                     ELSE PyStr(<<Letter(cat)>> \o NatToStr(slot))
        full == << <<"title", <<"T", "y", "p", "e", " ", Letter(cat)>> >>,
                   <<"table1_headers", HeaderRow(width(1))>>,
                   <<"table1_title", ttl(1)>>,
                   <<"table2_headers", HeaderRow(width(2))>>,
                   <<"table2_title", ttl(2)>>,
                   <<"table3_headers", HeaderRow(width(3))>>,
                   <<"table3_title", ttl(3)>> >>
    IN  IF mine /\ defect.kind = "key" THEN Without(full, defect.path[1]) ELSE full

Templates(defect) ==
    LET all == [k \in 1..Len(Categories) |->
                  <<TemplateName(Categories[k]), TemplateEntry(Categories[k], defect)>>]
    IN  IF defect.kind = "entry" THEN Without(all, TemplateName(defect.cat)) ELSE all

\* the records of cat: n records, the last one hit by a field defect
Records(cat, n, defect) ==
    [j \in 1..n |->
        IF defect.kind = "field" /\ defect.cat = cat /\ j = n
        THEN DropField(Record(cat, j), defect.path)
        ELSE Record(cat, j)]

JsonData(keys, cnt, defect) ==
    IF defect.kind = "no_objects" THEN <<>>
    ELSE << <<"objects",
              [k \in 1..Len(keys) |-> <<keys[k], Records(keys[k], cnt[k], defect)>>]>> >>

(***************************************************************************)
(* Document blocks, as python-docx keeps them in the document body.        *)
(***************************************************************************)
Heading(text) ==
    [kind |-> "heading", text |-> text, bold |-> FALSE, align |-> "none", rows |-> <<>>]

Paragraph(text, bold) ==
    [kind |-> "paragraph", text |-> text, bold |-> bold, align |-> "none", rows |-> <<>>]

Cell(text, bold) == [text |-> text, bold |-> bold]

Table(rows) ==
    [kind |-> "table", text |-> <<>>, bold |-> FALSE, align |-> "none", rows |-> rows]

EmptyRow(cols) == [k \in 1..cols |-> Cell(<<>>, FALSE)]

\* mutant: the first block is written instead of the one just appended
SetLast_First(s, x) == [k \in DOMAIN s |-> IF k = 1 THEN x ELSE s[k]]

\* the sequence s with its last element replaced
SetLast(s, x) == [k \in DOMAIN s |-> IF k = Len(s) THEN x ELSE s[k]]

Last(s) == s[Len(s)]

(***************************************************************************)
(* State.                                                                  *)
(***************************************************************************)
VARIABLES
    json_data,  \* self.json_data
    templates,  \* self.templates
    doc,        \* self.doc: the blocks of the document body
    pc,         \* the statement the caller or the generator is at
    cat,        \* generate_document: index of the category test it is at
    template,   \* process_type_*: local template
    slot,       \* process_type_*: the table to emit next (0: the title)
    item,       \* process_type_*: index of the current record
    text,       \* add_title: parameter text
    headers,    \* add_table: parameter headers
    rows,       \* add_table: parameter rows
    title,      \* add_table: parameter title
    r,          \* add_table: index of the next row of rows
    err,        \* the exception that ended the call, "none" without one
    calls,      \* generate_document calls made on this instance
    inst,       \* instances constructed so far
    saved       \* what doc.save has written, one entry per save

vars == <<json_data, templates, doc, pc, cat, template, slot, item, text,
          headers, rows, title, r, err, calls, inst, saved>>

inputs == <<json_data, templates>>
locals == <<template, slot, item, text, headers, rows, title, r>>
table_args == <<headers, rows, title, r>>

(***************************************************************************)
(* The rows each category processor builds.  A result is the rows, or the  *)
(* KeyError of a missing key.                                              *)
(***************************************************************************)
sTotalDevices == <<"T", "o", "t", "a", "l", " ", "D", "e", "v", "i", "c", "e", "s">>
sManufacturerLabel == <<"M", "a", "n", "u", "f", "a", "c", "t", "u", "r", "e", "r">>
sApproved == <<"A", "p", "p", "r", "o", "v", "e", "d">>
sYes == <<"Y", "e", "s">>
sNo == <<"N", "o">>
sEnvironmentType ==
    <<"E", "n", "v", "i", "r", "o", "n", "m", "e", "n", "t", " ", "T", "y", "p", "e">>
sTotalProjects ==
    <<"T", "o", "t", "a", "l", " ", "P", "r", "o", "j", "e", "c", "t", "s">>

Ok(rws) == [ok |-> TRUE, rows |-> rws]
KeyError == [ok |-> FALSE, rows |-> <<>>]

Need(d, ks) == \A k \in ks : HasKey(d, k)

\* process_type_a, Table 1: a row per record
TypeATable1(data) ==
    IF \A j \in DOMAIN data : Need(data[j], {"id", "name", "description"})
    THEN Ok([j \in DOMAIN data |->
               <<Lookup(data[j], "id"), Lookup(data[j], "name"),
                 Lookup(data[j], "description")>>])
    ELSE KeyError

\* process_type_a, Table 2 of one record
TypeATable2(it) ==
    IF Need(it, {"parameters"})
       /\ Need(Lookup(it, "parameters"), {"status", "priority", "last_updated"})
    THEN LET params == Lookup(it, "parameters")
         IN  Ok(<< <<Lookup(params, "status"), Lookup(params, "priority"),
                     Lookup(params, "last_updated")>> >>)
    ELSE KeyError

\* mutant: Table 3 counts the rows of the table built last instead of the records
TypeATable3_LenRows(data) ==
    Ok(<< <<PyStr(sTotalDevices), PyInt(IF Len(data) > 0 THEN 1 ELSE 0)>> >>)

\* process_type_a, Table 3: the number of records
TypeATable3(data) == Ok(<< <<PyStr(sTotalDevices), PyInt(Len(data))>> >>)

TypeARows(n, data, it) ==
    CASE n = 1 -> TypeATable1(data)
      [] n = 2 -> TypeATable2(it)
      [] OTHER -> TypeATable3(data)

\* process_type_b: the three tables of one record
TypeBRows(n, it) ==
    CASE n = 1 ->
           IF Need(it, {"component_id", "installation_date"})
           THEN Ok(<< <<Lookup(it, "component_id"), Lookup(it, "installation_date")>> >>)
           ELSE KeyError
      [] n = 2 ->
           IF Need(it, {"specs"})
           THEN LET specs == Lookup(it, "specs")
                IN  Ok([k \in DOMAIN specs |-> <<PyStr(specs[k][1]), specs[k][2]>>])
           ELSE KeyError
      [] OTHER ->
           LET specs == Lookup(it, "specs")
           IN  IF Need(specs, {sManufacturer})
               THEN Ok(<< <<PyStr(sManufacturerLabel), Lookup(specs, sManufacturer)>> >>)
               ELSE KeyError

\* mutant: the parties are numbered from 0
TypeCTable2_ZeroBased(it) ==
    IF Need(it, {"parties"})
    THEN LET parties == Lookup(it, "parties")
         IN  Ok([i \in DOMAIN parties |-> <<PyInt(i - 1), parties[i]>>])
    ELSE KeyError

\* process_type_c, Table 2: a row per party, numbered from 1
TypeCTable2(it) ==
    IF Need(it, {"parties"})
    THEN LET parties == Lookup(it, "parties")
         IN  Ok([i \in DOMAIN parties |-> <<PyInt(i), parties[i]>>])
    ELSE KeyError

\* process_type_c
TypeCRows(n, it) ==
    CASE n = 1 ->
           IF Need(it, {"transaction_id", "amount", "currency"})
           THEN Ok(<< <<Lookup(it, "transaction_id"), Lookup(it, "amount"),
                        Lookup(it, "currency")>> >>)
           ELSE KeyError
      [] n = 2 -> TypeCTable2(it)
      [] OTHER ->
           IF Need(it, {"approved"})
           THEN Ok(<< <<PyStr(sApproved),
                        PyStr(IF Truthy(Lookup(it, "approved")) THEN sYes ELSE sNo)>> >>)
           ELSE KeyError

\* process_type_d
TypeDRows(n, it) ==
    CASE n = 1 ->
           IF Need(it, {"test_id", "environment"})
           THEN Ok(<< <<Lookup(it, "test_id"), Lookup(it, "environment")>> >>)
           ELSE KeyError
      [] n = 2 ->
           IF Need(it, {"metrics"})
           THEN LET metrics == Lookup(it, "metrics")
                IN  Ok([k \in DOMAIN metrics |->
                          <<PyStr(TitleCase(Replace(metrics[k][1], "_", " "))),
                            metrics[k][2]>>])
           ELSE KeyError
      [] OTHER ->
           IF Need(it, {"environment"})
           THEN Ok(<< <<PyStr(sEnvironmentType),
                        PyStr(TitleCase(Lookup(it, "environment").s))>> >>)
           ELSE KeyError

\* process_type_e
TypeERows(n, it) ==
    CASE n = 1 ->
           IF Need(it, {"employee_id", "department", "role"})
           THEN Ok(<< <<Lookup(it, "employee_id"), Lookup(it, "department"),
                        Lookup(it, "role")>> >>)
           ELSE KeyError
      [] n = 2 ->
           IF Need(it, {"projects"})
           THEN LET projects == Lookup(it, "projects")
                IN  Ok([i \in DOMAIN projects |-> <<PyInt(i), projects[i]>>])
           ELSE KeyError
      [] OTHER ->
           IF Need(it, {"projects"})
           THEN Ok(<< <<PyStr(sTotalProjects), PyInt(Len(Lookup(it, "projects")))>> >>)
           ELSE KeyError

(***************************************************************************)
(* Steps shared by the five processors.  A call records in slot and item   *)
(* where the processor resumes when the callee returns.                    *)
(***************************************************************************)
\* objects = self.json_data.get('objects', {})
Objects == GetOr(json_data, "objects", <<>>)

\* mutant: the categories are taken in the order of the keys of the input
CategoryAt_InputOrder(k) == IF k <= Len(Objects) THEN Objects[k][1] ELSE "absent"

\* the category that the k-th test of generate_document is about
CategoryAt(k) == Categories[k]

Raise(e) ==
    /\ pc' = "raised"
    /\ err' = e

\* template = self.templates[name]; self.add_title(template['title'])
BeginSection(name) ==
    /\ IF ~HasKey(templates, name)
       THEN Raise("KeyError") /\ UNCHANGED <<template, text, slot, item>>
       ELSE /\ template' = Lookup(templates, name)
            /\ IF ~HasKey(template', "title")
               THEN Raise("KeyError") /\ UNCHANGED <<text, slot, item>>
               ELSE /\ text' = Lookup(template', "title")
                    /\ pc' = "add_title"
                    /\ slot' = 1
                    /\ item' = 1
                    /\ err' = err
    /\ UNCHANGED <<inputs, doc, cat, table_args, calls, inst, saved>>

\* rows = ...; self.add_table(template['tableN_headers'], rows, template['tableN_title'])
CallAddTable(n, res, nextSlot, nextItem) ==
    /\ IF ~res.ok \/ ~HasKey(template, HeadersKey(n)) \/ ~HasKey(template, TitleKey(n))
       THEN Raise("KeyError") /\ UNCHANGED <<table_args, slot, item>>
       ELSE /\ headers' = Lookup(template, HeadersKey(n))
            /\ rows' = res.rows
            /\ title' = Lookup(template, TitleKey(n))
            /\ r' = 1
            /\ pc' = "add_table"
            /\ slot' = nextSlot
            /\ item' = nextItem
            /\ err' = err
    /\ UNCHANGED <<inputs, doc, cat, template, text, calls, inst, saved>>

\* the processor returns to generate_document
Return ==
    /\ pc' = "dispatch"
    /\ cat' = cat + 1
    /\ UNCHANGED <<inputs, doc, locals, err, calls, inst, saved>>

AfterSlot(n) == IF n < 3 THEN n + 1 ELSE 1
AfterItem(n, j) == IF n < 3 THEN j ELSE j + 1

\* mutant: one Table 2 for the whole category, a row per record
process_type_a_aggregate ==
    /\ pc = "proc" /\ CategoryAt(cat) = "TypeA"
    /\ LET data == Lookup(Objects, "TypeA")
           all == [j \in DOMAIN data |-> TypeARows(2, data, data[j])]
       IN  \/ slot = 0 /\ BeginSection("type_a")
           \/ slot = 1 /\ CallAddTable(1, TypeARows(1, data, <<>>), 2, 1)
           \/ slot = 2
                /\ CallAddTable(2, IF \A j \in DOMAIN all : all[j].ok
                                   THEN Ok([j \in DOMAIN all |-> all[j].rows[1]])
                                   ELSE KeyError, 3, 1)
           \/ slot = 3 /\ CallAddTable(3, TypeARows(3, data, <<>>), 4, 1)
           \/ slot = 4 /\ Return

process_type_a ==
    /\ pc = "proc" /\ CategoryAt(cat) = "TypeA"
    /\ LET data == Lookup(Objects, "TypeA")
       IN  \/ slot = 0 /\ BeginSection("type_a")
           \/ slot = 1 /\ CallAddTable(1, TypeARows(1, data, <<>>), 2, 1)
           \/ slot = 2 /\ item <= Len(data)
                /\ CallAddTable(2, TypeARows(2, data, data[item]), 2, item + 1)
           \/ slot = 2 /\ item > Len(data)
                /\ CallAddTable(3, TypeARows(3, data, <<>>), 4, item)
           \/ slot = 4 /\ Return

process_type_b ==
    /\ pc = "proc" /\ CategoryAt(cat) = "TypeB"
    /\ LET data == Lookup(Objects, "TypeB")
       IN  \/ slot = 0 /\ BeginSection("type_b")
           \/ slot > 0 /\ item <= Len(data)
                /\ CallAddTable(slot, TypeBRows(slot, data[item]),
                                AfterSlot(slot), AfterItem(slot, item))
           \/ slot > 0 /\ item > Len(data) /\ Return

process_type_c ==
    /\ pc = "proc" /\ CategoryAt(cat) = "TypeC"
    /\ LET data == Lookup(Objects, "TypeC")
       IN  \/ slot = 0 /\ BeginSection("type_c")
           \/ slot > 0 /\ item <= Len(data)
                /\ CallAddTable(slot, TypeCRows(slot, data[item]),
                                AfterSlot(slot), AfterItem(slot, item))
           \/ slot > 0 /\ item > Len(data) /\ Return

process_type_d ==
    /\ pc = "proc" /\ CategoryAt(cat) = "TypeD"
    /\ LET data == Lookup(Objects, "TypeD")
       IN  \/ slot = 0 /\ BeginSection("type_d")
           \/ slot > 0 /\ item <= Len(data)
                /\ CallAddTable(slot, TypeDRows(slot, data[item]),
                                AfterSlot(slot), AfterItem(slot, item))
           \/ slot > 0 /\ item > Len(data) /\ Return

process_type_e ==
    /\ pc = "proc" /\ CategoryAt(cat) = "TypeE"
    /\ LET data == Lookup(Objects, "TypeE")
       IN  \/ slot = 0 /\ BeginSection("type_e")
           \/ slot > 0 /\ item <= Len(data)
                /\ CallAddTable(slot, TypeERows(slot, data[item]),
                                AfterSlot(slot), AfterItem(slot, item))
           \/ slot > 0 /\ item > Len(data) /\ Return

(***************************************************************************)
(* add_title and add_table, one step per statement that touches the        *)
(* document (a loop over the cells of one row is one step).                *)
(***************************************************************************)
add_title ==
    /\ \/ /\ pc = "add_title"               \* title = self.doc.add_heading(text, level=1)
          /\ doc' = Append(doc, Heading(text))
          /\ pc' = "set_alignment"
       \/ /\ pc = "set_alignment"           \* title.alignment = WD_ALIGN_PARAGRAPH.CENTER
          /\ doc' = SetLast(doc, [Last(doc) EXCEPT !.align = "center"])
          /\ pc' = "title_paragraph"
       \/ /\ pc = "title_paragraph"         \* self.doc.add_paragraph()
          /\ doc' = Append(doc, Paragraph(<<>>, FALSE))
          /\ pc' = "proc"
    /\ UNCHANGED <<inputs, cat, locals, err, calls, inst, saved>>

\* mutant: the cells are filled from the second one on
FilledRow_SkipFirst(cols, row_data) ==
    [k \in 1..cols |->
        IF k > 1 /\ k <= Len(row_data) THEN Cell(Str(row_data[k]), FALSE)
        ELSE Cell(<<>>, FALSE)]

\* the row of the table for row_data: add_row(), then the cells left to right;
\* a cell index past the table's columns is an IndexError
FilledRow(cols, row_data) ==
    [k \in 1..cols |->
        IF k <= Len(row_data) THEN Cell(Str(row_data[k]), FALSE) ELSE Cell(<<>>, FALSE)]

WithRow(tbl, row) == [tbl EXCEPT !.rows = Append(tbl.rows, row)]

add_table ==
    \/ /\ pc = "add_table" /\ Truthy(title)       \* title_para = self.doc.add_paragraph()
       /\ doc' = Append(doc, Paragraph(<<>>, FALSE))
       /\ pc' = "title_run"
       /\ UNCHANGED <<inputs, cat, locals, err, calls, inst, saved>>
    \/ /\ pc = "title_run"                        \* title_para.add_run(title).bold = True
       /\ doc' = SetLast(doc, Paragraph(title.s, TRUE))
       /\ pc' = "create_table"
       /\ UNCHANGED <<inputs, cat, locals, err, calls, inst, saved>>
    \/ /\ \/ pc = "add_table" /\ ~Truthy(title)   \* table = self.doc.add_table(rows=1, ...)
          \/ pc = "create_table"
       /\ doc' = Append(doc, Table(<<EmptyRow(Len(headers))>>))
       /\ pc' = "header_cells"
       /\ UNCHANGED <<inputs, cat, locals, err, calls, inst, saved>>
    \/ /\ pc = "header_cells"                     \* for i, header in enumerate(headers)
       /\ doc' = SetLast(doc, Table(<<[k \in DOMAIN headers |-> Cell(headers[k], TRUE)]>>))
       /\ pc' = "data_rows"
       /\ UNCHANGED <<inputs, cat, locals, err, calls, inst, saved>>
    \/ /\ pc = "data_rows" /\ r <= Len(rows)      \* for row_data in rows
       /\ doc' = SetLast(doc, WithRow(Last(doc), FilledRow(Len(headers), rows[r])))
       /\ IF Len(rows[r]) > Len(headers)
          THEN Raise("IndexError") /\ r' = r
          ELSE pc' = pc /\ err' = err /\ r' = r + 1
       /\ UNCHANGED <<inputs, cat, template, slot, item, text, headers, rows, title,
                      calls, inst, saved>>
    \/ /\ pc = "data_rows" /\ r > Len(rows)       \* self.doc.add_paragraph()
       /\ doc' = Append(doc, Paragraph(<<>>, FALSE))
       /\ pc' = "proc"
       /\ UNCHANGED <<inputs, cat, locals, err, calls, inst, saved>>

(***************************************************************************)
(* generate_document and the caller.                                       *)
(***************************************************************************)
RECURSIVE SumSeq(_)
SumSeq(s) == IF s = <<>> THEN 0 ELSE s[1] + SumSeq(Tail(s))

\* keys plus records of the input
Size == Len(Objects) + SumSeq([k \in DOMAIN Objects |-> Len(Objects[k][2])])

NoLocals ==
    /\ template' = <<>>
    /\ slot' = 0
    /\ item' = 0
    /\ text' = <<>>
    /\ headers' = <<>>
    /\ rows' = <<>>
    /\ title' = None
    /\ r' = 0

\* mutant: generate_document starts from a new document
generate_document_call_fresh ==
    /\ pc \in {"idle", "done", "raised"}
    /\ calls < MaxCalls
    /\ calls = 0 \/ Size * (calls + 1) <= MaxWork
    /\ calls' = calls + 1
    /\ cat' = 1
    /\ pc' = "dispatch"
    /\ err' = "none"
    /\ doc' = <<>>
    /\ NoLocals
    /\ UNCHANGED <<inputs, inst, saved>>

\* the caller calls generate_document: self.doc is used as it stands
generate_document_call ==
    /\ pc \in {"idle", "done", "raised"}
    /\ calls < MaxCalls
    /\ calls = 0 \/ Size * (calls + 1) <= MaxWork
    /\ calls' = calls + 1
    /\ cat' = 1
    /\ pc' = "dispatch"
    /\ err' = "none"
    /\ NoLocals
    /\ UNCHANGED <<inputs, doc, inst, saved>>

\* mutant: every category is processed, present or not
generate_document_dispatch_always ==
    /\ pc = "dispatch" /\ cat <= Len(Categories)
    /\ pc' = "proc"
    /\ slot' = 0
    /\ item' = 0
    /\ UNCHANGED <<cat, template, text, table_args>>
    /\ UNCHANGED <<inputs, doc, err, calls, inst, saved>>

\* if 'TypeX' in objects: self.process_type_x(objects['TypeX'])
generate_document_dispatch ==
    /\ pc = "dispatch" /\ cat <= Len(Categories)
    /\ \/ /\ HasKey(Objects, CategoryAt(cat))
          /\ pc' = "proc"
          /\ slot' = 0
          /\ item' = 0
          /\ UNCHANGED <<cat, template, text, table_args>>
       \/ /\ ~HasKey(Objects, CategoryAt(cat))
          /\ cat' = cat + 1
          /\ UNCHANGED <<pc, locals>>
    /\ UNCHANGED <<inputs, doc, err, calls, inst, saved>>

\* mutant: the exception of a processor is swallowed and the document saved
generate_document_save_swallow ==
    /\ \/ pc = "dispatch" /\ cat > Len(Categories)
       \/ pc = "raised"
    /\ saved' = Append(saved, [inst |-> inst, call |-> calls, blocks |-> doc])
    /\ pc' = "done"
    /\ UNCHANGED <<inputs, doc, cat, locals, err, calls, inst>>

\* self.doc.save(output_file)
generate_document_save ==
    /\ pc = "dispatch" /\ cat > Len(Categories)
    /\ saved' = Append(saved, [inst |-> inst, call |-> calls, blocks |-> doc])
    /\ pc' = "done"
    /\ UNCHANGED <<inputs, doc, cat, locals, err, calls, inst>>

generate_document ==
    \/ generate_document_call
    \/ generate_document_dispatch
    \/ generate_document_save

\* mutant: the document is shared by the instances (a class attribute)
Document_Shared == doc

\* Document(): a new, empty document
Document == <<>>

\* DocumentGenerator(json_data) on the same input, after a run has ended
DocumentGenerator_init ==
    /\ pc \in {"done", "raised"}
    /\ inst < MaxInstances
    /\ Size * (inst + 1) <= MaxWork
    /\ inst' = inst + 1
    /\ doc' = Document
    /\ calls' = 0
    /\ cat' = 0
    /\ pc' = "idle"
    /\ err' = "none"
    /\ NoLocals
    /\ UNCHANGED <<inputs, saved>>

(***************************************************************************)
(* The inputs the model runs on.                                           *)
(***************************************************************************)
CategorySet == {Categories[k] : k \in DOMAIN Categories}

Ascending(S) == SelectSeq(Categories, LAMBDA c : c \in S)

KeyLists ==
    LET sets == {S \in SUBSET CategorySet : Cardinality(S) <= MaxKeys}
    IN  {Ascending(S) : S \in sets} \cup {Reverse(Ascending(S)) : S \in sets}

Counts(keys) ==
    {cnt \in [1..Len(keys) -> 0..MaxRecords] : SumSeq(cnt) <= MaxTotal}

InitWith(keys, cnt, defect) ==
    /\ json_data = JsonData(keys, cnt, defect)
    /\ templates = Templates(defect)
    /\ doc = <<>>
    /\ pc = "idle"
    /\ cat = 0
    /\ template = <<>>
    /\ slot = 0
    /\ item = 0
    /\ text = <<>>
    /\ headers = <<>>
    /\ rows = <<>>
    /\ title = None
    /\ r = 0
    /\ err = "none"
    /\ calls = 0
    /\ inst = 1
    /\ saved = <<>>

Init ==
    \E keys \in KeyLists : \E cnt \in Counts(keys) :
        \/ InitWith(keys, cnt, NoDefect)
        \/ /\ Len(keys) + SumSeq(cnt) <= MaxDefectSize
           /\ \/ \E kind \in {"untitled", "no_objects"} :
                    InitWith(keys, cnt, Defect(kind, "", <<>>, 0))
              \/ \E c \in CategorySet :
                    InitWith(keys, cnt, Defect("entry", c, <<>>, 0))
              \/ \E k \in DOMAIN keys :
                    \/ \E key \in TemplateKeys :
                          InitWith(keys, cnt, Defect("key", keys[k], <<key>>, 0))
                    \/ \E n \in 1..3 :
                          InitWith(keys, cnt, Defect("short", keys[k], <<>>, n))
                    \/ /\ cnt[k] > 0
                       /\ \E path \in FieldPaths(keys[k]) :
                             InitWith(keys, cnt, Defect("field", keys[k], path, 0))

Next ==
    \/ DocumentGenerator_init
    \/ generate_document
    \/ process_type_a
    \/ process_type_b
    \/ process_type_c
    \/ process_type_d
    \/ process_type_e
    \/ add_title
    \/ add_table

Spec == Init /\ [][Next]_vars

(***************************************************************************)
(* What the claims are stated with: the document that the specification    *)
(* describes, built block by block without the generator's steps.          *)
(***************************************************************************)
FixedOrder == <<"TypeA", "TypeB", "TypeC", "TypeD", "TypeE">>

RECURSIVE Flatten(_)
Flatten(ss) == IF ss = <<>> THEN <<>> ELSE ss[1] \o Flatten(Tail(ss))

RECURSIVE Repeat(_, _)
Repeat(s, k) == IF k = 0 THEN <<>> ELSE s \o Repeat(s, k - 1)

IsPrefix(s, t) == Len(s) <= Len(t) /\ \A k \in DOMAIN s : t[k] = s[k]

IsPresent(X) == \E k \in DOMAIN Objects : Objects[k][1] = X

DataOf(X) == Lookup(Objects, X)

BlankParagraph ==
    [kind |-> "paragraph", text |-> <<>>, bold |-> FALSE, align |-> "none", rows |-> <<>>]

ExpectedTitle(txt) ==
    << [kind |-> "heading", text |-> txt, bold |-> FALSE, align |-> "center",
        rows |-> <<>>],
       BlankParagraph >>

ExpectedTable(hdrs, rws, ttl) ==
    (IF ttl.t = "str" /\ ttl.s # <<>>
     THEN << [kind |-> "paragraph", text |-> ttl.s, bold |-> TRUE, align |-> "none",
              rows |-> <<>>] >>
     ELSE <<>>)
    \o << [kind |-> "table", text |-> <<>>, bold |-> FALSE, align |-> "none",
           rows |-> <<[k \in DOMAIN hdrs |-> [text |-> hdrs[k], bold |-> TRUE]]>>
                    \o [j \in DOMAIN rws |->
                          [k \in DOMAIN rws[j] |-> [text |-> Str(rws[j][k]), bold |-> FALSE]]]],
          BlankParagraph >>

RowsOf(X, n, data, it) ==
    CASE X = "TypeA" -> TypeARows(n, data, it).rows
      [] X = "TypeB" -> TypeBRows(n, it).rows
      [] X = "TypeC" -> TypeCRows(n, it).rows
      [] X = "TypeD" -> TypeDRows(n, it).rows
      [] OTHER -> TypeERows(n, it).rows

\* the section of category X: heading, then the records in input order, each
\* record's tables in the order 1, 2, 3 (TypeA: Table 1 once, a Table 2 per
\* record, Table 3 once)
ExpectedSection(X) ==
    LET data == DataOf(X)
        tmpl == Lookup(templates, TemplateName(X))
        tbl(n, it) == ExpectedTable(Lookup(tmpl, HeadersKey(n)), RowsOf(X, n, data, it),
                                    Lookup(tmpl, TitleKey(n)))
    IN  ExpectedTitle(Lookup(tmpl, "title"))
        \o (IF X = "TypeA"
            THEN tbl(1, <<>>) \o Flatten([j \in DOMAIN data |-> tbl(2, data[j])])
                 \o tbl(3, <<>>)
            ELSE Flatten([j \in DOMAIN data |->
                            tbl(1, data[j]) \o tbl(2, data[j]) \o tbl(3, data[j])]))

ExpectedDocument ==
    Flatten([k \in DOMAIN FixedOrder |->
               IF IsPresent(FixedOrder[k]) THEN ExpectedSection(FixedOrder[k]) ELSE <<>>])

\* the tables of a block sequence, and the texts of the cells of a table
TablesOf(blocks) == SelectSeq(blocks, LAMBDA b : b.kind = "table")

CellTexts(tbl) == {tbl.rows[j][k].text : j \in DOMAIN tbl.rows, k \in DOMAIN tbl.rows[1]}

RowTexts(row) == [k \in DOMAIN row |-> row[k].text]

\* the data rows of a table, as texts
DataRows(tbl) == [j \in 1..(Len(tbl.rows) - 1) |-> RowTexts(tbl.rows[j + 1])]

KeysInInputOrder == [k \in DOMAIN Objects |-> Objects[k][1]]

(***************************************************************************)
(* C1: the blocks a first call of generate_document has produced are the   *)
(* sections of the categories present, in the fixed order TypeA..TypeE     *)
(* whatever the order of the keys in the input, each section its heading   *)
(* followed by the records in input order with their tables in order.      *)
(***************************************************************************)
C1_BlockOrder ==
    (pc = "done" /\ calls = 1) => doc = ExpectedDocument

\* a finished run on an input whose keys are not in the fixed order, with
\* two records in one category
C1_Witness ==
    /\ pc = "done" /\ calls = 1
    /\ Len(KeysInInputOrder) >= 2
    /\ KeysInInputOrder # SelectSeq(FixedOrder, IsPresent)
    /\ \E k \in DOMAIN Objects : Len(Objects[k][2]) >= 2

(***************************************************************************)
(* C2: in every saved document the identifying field of every record of    *)
(* every category present is the text of a cell of some table, and the     *)
(* TypeA ids are cells of the first table of the document.                 *)
(***************************************************************************)
IdField(X) ==
    CASE X = "TypeA" -> "id" [] X = "TypeB" -> "component_id"
      [] X = "TypeC" -> "transaction_id" [] X = "TypeD" -> "test_id"
      [] OTHER -> "employee_id"

C2_IdsAppear ==
    pc = "done" =>
        LET tables == TablesOf(Last(saved).blocks)
        IN  \A k \in DOMAIN Objects : \A j \in DOMAIN Objects[k][2] :
               LET id == Str(Lookup(Objects[k][2][j], IdField(Objects[k][1])))
               IN  /\ \E t \in DOMAIN tables : id \in CellTexts(tables[t])
                   /\ Objects[k][1] = "TypeA" => id \in CellTexts(tables[1])

C2_Witness ==
    /\ pc = "done"
    /\ IsPresent("TypeA") /\ Len(DataOf("TypeA")) >= 1
    /\ IsPresent("TypeC") /\ Len(DataOf("TypeC")) >= 1

(***************************************************************************)
(* C3: a category whose key is absent from the input is skipped: the test  *)
(* of generate_document moves on to the next category with no block        *)
(* appended, no template looked up and no error, and the finished document *)
(* is the one a generator without that category would produce, with no     *)
(* heading of the absent category in it.                                   *)
(***************************************************************************)
DocumentOver(order) ==
    Flatten([k \in DOMAIN order |->
               IF IsPresent(order[k]) THEN ExpectedSection(order[k]) ELSE <<>>])

HasTitle(X) ==
    /\ HasKey(templates, TemplateName(X))
    /\ HasKey(Lookup(templates, TemplateName(X)), "title")

C3_Step ==
    /\ (pc = "dispatch" /\ cat \in DOMAIN FixedOrder /\ ~IsPresent(FixedOrder[cat]))
          => /\ pc' = "dispatch"
             /\ cat' = cat + 1
             /\ doc' = doc
             /\ template' = template
             /\ err' = "none"
    /\ (pc' = "done" /\ calls' = 1)
          => \A k \in DOMAIN FixedOrder :
                ~IsPresent(FixedOrder[k])
                   => /\ doc' = DocumentOver(SelectSeq(FixedOrder,
                                                        LAMBDA c : c # FixedOrder[k]))
                      /\ HasTitle(FixedOrder[k])
                            => \A b \in DOMAIN doc' :
                                  ~(/\ doc'[b].kind = "heading"
                                    /\ doc'[b].text =
                                          Lookup(Lookup(templates,
                                                        TemplateName(FixedOrder[k])),
                                                 "title"))

\* C3: an absent category is skipped with nothing appended, looked up or raised
C3_AbsentSkipped == [][C3_Step]_vars

\* a finished run that has appended blocks, on an input without TypeC whose
\* templates have no entry for TypeC
C3_Witness ==
    /\ pc = "done" /\ doc # <<>>
    /\ ~IsPresent("TypeC")
    /\ ~HasKey(templates, "type_c")

(***************************************************************************)
(* C4, as claimed: with "TypeA": [] the TypeA section has three tables, a  *)
(* Table 1 and a Table 2 of the header row alone and a Table 3 whose data  *)
(* row is ["Total Devices", "0"].                                          *)
(***************************************************************************)
\* the blocks before the second heading: the TypeA section when TypeA is present
FirstSection(blocks) ==
    LET later == {k \in DOMAIN blocks : k > 1 /\ blocks[k].kind = "heading"}
    IN  IF later = {} THEN blocks
        ELSE SubSeq(blocks, 1, (CHOOSE k \in later : \A m \in later : k <= m) - 1)

TotalDevicesText ==
    <<"T", "o", "t", "a", "l", " ", "D", "e", "v", "i", "c", "e", "s">>

EmptyTypeA == IsPresent("TypeA") /\ DataOf("TypeA") = <<>>

\* C4, as claimed: three tables, Table 1 and Table 2 of the header row alone
C4_Original ==
    (pc = "done" /\ calls = 1 /\ EmptyTypeA) =>
        LET t == TablesOf(FirstSection(doc))
        IN  /\ Len(t) = 3
            /\ DataRows(t[1]) = <<>>
            /\ DataRows(t[2]) = <<>>
            /\ DataRows(t[3]) = << <<TotalDevicesText, <<"0">> >> >>

(***************************************************************************)
(* C4, amended: with "TypeA": [] the TypeA section has two tables only, a  *)
(* Table 1 of the header row alone and a Table 3 whose data row is         *)
(* ["Total Devices", "0"]; no Table 2 is emitted, as there is one per      *)
(* record.                                                                 *)
(***************************************************************************)
\* C4, amended: Table 1 of the header row alone, no Table 2, Table 3 with the count 0
C4_EmptyTypeA ==
    (pc = "done" /\ calls = 1 /\ EmptyTypeA) =>
        LET t == TablesOf(FirstSection(doc))
            tmpl == Lookup(templates, "type_a")
        IN  /\ Len(t) = 2
            /\ RowTexts(t[1].rows[1]) = Lookup(tmpl, "table1_headers")
            /\ DataRows(t[1]) = <<>>
            /\ RowTexts(t[2].rows[1]) = Lookup(tmpl, "table3_headers")
            /\ DataRows(t[2]) = << <<TotalDevicesText, <<"0">> >> >>

C4_Witness ==
    /\ pc = "done" /\ calls = 1 /\ EmptyTypeA
    /\ Len(TablesOf(doc)) = 2

(***************************************************************************)
(* C5: with n TypeA records, Table 1 of TypeA has exactly n data rows, the *)
(* id, name and description of the records in record order, and Table 3    *)
(* has one data row, whose second cell is n in decimal.                    *)
(***************************************************************************)
DecimalDigits == <<"0", "1", "2", "3", "4", "5", "6", "7", "8", "9">>

RECURSIVE DecimalValue(_)
DecimalValue(txt) ==
    IF txt = <<>> THEN 0
    ELSE 10 * DecimalValue(SubSeq(txt, 1, Len(txt) - 1))
         + (CHOOSE d \in 0..9 : DecimalDigits[d + 1] = txt[Len(txt)])

\* txt is the decimal numeral of the natural number n
IsDecimalOf(txt, n) ==
    /\ txt # <<>>
    /\ \A k \in DOMAIN txt : \E d \in 0..9 : DecimalDigits[d + 1] = txt[k]
    /\ Len(txt) > 1 => txt[1] # "0"
    /\ DecimalValue(txt) = n

\* C5: n data rows in Table 1 and the numeral of n in Table 3
C5_TypeACounts ==
    (pc = "done" /\ calls = 1 /\ IsPresent("TypeA")) =>
        LET data == DataOf("TypeA")
            n == Len(data)
            t == TablesOf(doc)
        IN  /\ Len(DataRows(t[1])) = n
            /\ \A j \in 1..n :
                  DataRows(t[1])[j] = <<Str(Lookup(data[j], "id")),
                                        Str(Lookup(data[j], "name")),
                                        Str(Lookup(data[j], "description"))>>
            /\ Len(DataRows(t[n + 2])) = 1
            /\ DataRows(t[n + 2])[1][1] = TotalDevicesText
            /\ IsDecimalOf(DataRows(t[n + 2])[1][2], n)

C5_Witness ==
    /\ pc = "done" /\ calls = 1 /\ IsPresent("TypeA")
    /\ Len(DataOf("TypeA")) = 2

(***************************************************************************)
(* C6: every TypeC record has three tables in the document, in order:      *)
(* Table 1 with the one data row transaction_id, amount, currency as       *)
(* strings; Table 2 with a data row per party in list order, the 1-based   *)
(* index in decimal and the party; Table 3 with the one data row           *)
(* "Approved", "Yes" when approved is true and "Approved", "No" otherwise. *)
(* The record T1, 100, USD, [Alice, Bob], true gives the rows              *)
(* T1/100/USD, 1/Alice, 2/Bob and Approved/Yes.                            *)
(***************************************************************************)
\* the tables that precede the TypeC section
TablesBeforeTypeC ==
    (IF IsPresent("TypeA") THEN 2 + Len(DataOf("TypeA")) ELSE 0)
    + (IF IsPresent("TypeB") THEN 3 * Len(DataOf("TypeB")) ELSE 0)

ApprovedText == <<"A", "p", "p", "r", "o", "v", "e", "d">>

\* C6: the three tables of every TypeC record
C6_TypeCTables ==
    (pc = "done" /\ calls = 1 /\ IsPresent("TypeC")) =>
        LET data == DataOf("TypeC")
            t == TablesOf(doc)
            at(j, n) == DataRows(t[TablesBeforeTypeC + 3 * (j - 1) + n])
        IN  \A j \in DOMAIN data :
               LET parties == Lookup(data[j], "parties")
               IN  /\ at(j, 1) = << <<Str(Lookup(data[j], "transaction_id")),
                                      Str(Lookup(data[j], "amount")),
                                      Str(Lookup(data[j], "currency"))>> >>
                   /\ Len(at(j, 2)) = Len(parties)
                   /\ \A i \in DOMAIN parties :
                         /\ Len(at(j, 2)[i]) = 2
                         /\ IsDecimalOf(at(j, 2)[i][1], i)
                         /\ at(j, 2)[i][2] = Str(parties[i])
                   /\ at(j, 3) = << <<ApprovedText,
                                      IF Lookup(data[j], "approved") = PyBool(TRUE)
                                      THEN <<"Y", "e", "s">> ELSE <<"N", "o">> >> >>
                   /\ Lookup(data[j], "transaction_id") = PyStr(<<"T", "1">>)
                         => /\ at(j, 1) = << << <<"T", "1">>, <<"1", "0", "0">>,
                                                <<"U", "S", "D">> >> >>
                            /\ at(j, 2) = << << <<"1">>, <<"A", "l", "i", "c", "e">> >>,
                                             << <<"2">>, <<"B", "o", "b">> >> >>
                            /\ at(j, 3) = << <<ApprovedText, <<"Y", "e", "s">> >> >>

\* a finished run with two TypeC records, the second one not approved
C6_Witness ==
    /\ pc = "done" /\ calls = 1 /\ IsPresent("TypeC")
    /\ Len(DataOf("TypeC")) = 2
    /\ Lookup(DataOf("TypeC")[2], "approved") = PyBool(FALSE)

(***************************************************************************)
(* C7: a call that fails ends with the exception and has saved nothing,    *)
(* whatever it has appended to the document; a save happens only in a call *)
(* that has passed the tests of all five categories without an error.      *)
(***************************************************************************)
C7_NoSaveOnFailure ==
    /\ pc = "raised" =>
          /\ err \in {"KeyError", "IndexError"}
          /\ \A k \in DOMAIN saved : ~(saved[k].inst = inst /\ saved[k].call = calls)
    /\ pc = "done" =>
          /\ err = "none"
          /\ cat > Len(FixedOrder)
          /\ Last(saved) = [inst |-> inst, call |-> calls, blocks |-> doc]

\* a call that has failed after it had appended blocks
C7_Witness ==
    /\ pc = "raised" /\ err = "KeyError"
    /\ Len(doc) > 2
    /\ saved = <<>>

(***************************************************************************)
(* C8, as claimed: at every step of the construction of a document the     *)
(* block sequence before the step is a prefix of the block sequence after  *)
(* it, so that no block changes once it is in the document.                *)
(***************************************************************************)
C8_Original == [][inst' = inst => IsPrefix(doc, doc')]_vars

(***************************************************************************)
(* C8, amended: at every step no block is removed and every block but the  *)
(* last one is left as it is; the last block changes only in the steps of  *)
(* add_title and add_table that fill the block they have just appended     *)
(* (the heading's alignment, the title paragraph's run, the table's header *)
(* cells and data rows), and at every other step the block sequence before *)
(* the step is a prefix of the one after it.                               *)
(***************************************************************************)
FillingSteps == {"set_alignment", "title_run", "header_cells", "data_rows"}

C8_Step ==
    inst' = inst =>
        /\ Len(doc') >= Len(doc)
        /\ \A k \in 1..(Len(doc) - 1) : doc'[k] = doc[k]
        /\ pc \notin FillingSteps => IsPrefix(doc, doc')
        /\ (pc = "data_rows" /\ r > Len(rows)) => IsPrefix(doc, doc')
        /\ ~IsPrefix(doc, doc') => doc'[Len(doc)].kind = doc[Len(doc)].kind

\* C8, amended: only the block just appended is written to, nothing is removed
C8_AppendOnly == [][C8_Step]_vars

\* a table being filled that is not the first block of the document
C8_Witness ==
    /\ pc = "data_rows" /\ r > 1
    /\ Len(doc) > 3
    /\ Len(Last(doc).rows) > 1

(***************************************************************************)
(* C9: the first runs of generators constructed on the same input and      *)
(* templates save documents with the same blocks, cell for cell.           *)
(***************************************************************************)
C9_Idempotent ==
    \A i, j \in DOMAIN saved :
        (saved[i].call = 1 /\ saved[j].call = 1) => saved[i].blocks = saved[j].blocks

\* two instances have each saved a first run, with tables in it
C9_Witness ==
    \E i, j \in DOMAIN saved :
        /\ saved[i].inst # saved[j].inst
        /\ saved[i].call = 1 /\ saved[j].call = 1
        /\ TablesOf(saved[i].blocks) # <<>>

(***************************************************************************)
(* C10: the document of an instance is never reset: after k calls of       *)
(* generate_document on one instance, failed or not, the document is k     *)
(* copies of what one call appends, and the k-th call saves k copies of    *)
(* the blocks that the first call of the instance saved.                   *)
(***************************************************************************)
C10_Accumulates ==
    pc \in {"done", "raised"} =>
        /\ Len(doc) % calls = 0
        /\ doc = Repeat(SubSeq(doc, 1, Len(doc) \div calls), calls)
        /\ pc = "done" =>
              \E k \in DOMAIN saved :
                 /\ saved[k].inst = inst
                 /\ saved[k].call = 1
                 /\ Last(saved).blocks = Repeat(saved[k].blocks, calls)

\* the second call on one instance has saved a document with tables
C10_Witness ==
    /\ pc = "done" /\ calls = 2
    /\ TablesOf(doc) # <<>>
    /\ Last(saved).call = 2

\* a second call on an instance whose first call failed part-way
C10_WitnessFailed ==
    /\ pc = "raised" /\ calls = 2
    /\ Len(doc) > 2
====
